---- MODULE Spec2Model ----
(***************************************************************************)
(* The two linked lists of the crate linked_list_impls:                    *)
(*   StaticLinkedList<T, N>  (src/src/static_linked_list.rs), a chain of   *)
(*     slot indices over a fixed array with a pool of free indices;        *)
(*   DynamicLinkedList<T>    (src/src/dynamic_linked_list.rs), a chain of  *)
(*     boxed nodes;                                                        *)
(* and the StaticLinkedList<T, N> of tests/static_linked_list_test.rs, an  *)
(* array whose first `size` slots hold the elements in list order.         *)
(* The first two implement LinkedListTrait (src/src/lib.rs), the third has *)
(* methods of the same names.  A behaviour of Spec is the life of one     *)
(* list, of any kind, from new(): every step is one call of a mutating     *)
(* method on it; find and get take &self and are operators over the state. *)
(* SpecPair and SpecBounded make the same calls on two lists; SpecSteps    *)
(* and SpecWalk follow a StaticLinkedList write by write and loop turn by  *)
(* loop turn.                                                              *)
(*                                                                         *)
(* Option<X> is a sequence of at most one element: None is <<>> and        *)
(* Some(x) is <<x>>.                                                       *)
(***************************************************************************)
EXTENDS Integers, Sequences, FiniteSets, TLC

\* Capacity of the StaticLinkedList under test (the const generic N).
N == 3

\* Largest element value; elements are 1..MaxVal.
MaxVal == 2

Values  == 1..MaxVal
Slots   == 0..(N - 1)
\* No insert is issued once the DynamicLinkedList holds MaxLen elements.
MaxLen  == N + 1
\* The usize arguments tried: every position of a list, its length, and beyond.
Indices == 0..(N + 2)

None    == <<>>
Some(x) == <<x>>

\* What a call returns: () , Ok(()), the two Err strings, the two booleans;
\* "panic" is an unwrap of None or an index outside the slot array, "hang" a
\* traversal that follows more than N links.
Unit    == "()"
Ok      == "Ok"
ErrOOB  == "Err(Index out of bounds)"
ErrFull == "Err(List is full)"
ErrOOBOrFull == "Err(Index out of bounds or list is full)"
True    == "true"
False   == "false"
Panic   == "panic"
Hang    == "hang"

VARIABLES
    kind,     \* which implementation the list under test is
    nodes,    \* StaticLinkedList.nodes : [Option<Node<T>>; N]
    head,     \* StaticLinkedList.head  : Option<usize>
    free,     \* StaticLinkedList.free  : Vec<usize>
    dhead,    \* DynamicLinkedList.head : Option<Box<Node<T>>>
    op,       \* the call made last, with its arguments
    ret,      \* what that call returned on the StaticLinkedList
    dret,     \* what that call returned on the DynamicLinkedList
    anodes,   \* array StaticLinkedList.nodes : [Option<T>; N]
    size,     \* array StaticLinkedList.size  : usize
    aret,     \* what that call returned on the array StaticLinkedList
    printed,  \* whether that call wrote the "is full" line to stdout
    pc        \* where a call that is followed write by write stands

vars == <<kind, nodes, head, free, dhead, op, ret, dret, anodes, size, aret, printed, pc>>

\* The StaticLinkedList as one value (self).
Self == [nodes |-> nodes, head |-> head, free |-> free]

Node(d, n) == [data |-> d, next |-> n]

----------------------------------------------------------------------------
(* Vec::sort_unstable on a vector of indices: ascending order. *)

RECURSIVE MinOf(_)
MinOf(s) ==
    IF Len(s) = 1 THEN s[1]
    ELSE LET m == MinOf(Tail(s)) IN IF s[1] <= m THEN s[1] ELSE m

RemoveAt(s, k) == SubSeq(s, 1, k - 1) \o SubSeq(s, k + 1, Len(s))

RECURSIVE sort_unstable(_)
sort_unstable(s) ==
    IF s = <<>> THEN <<>>
    ELSE LET m == MinOf(s)
             k == CHOOSE i \in 1..Len(s) : s[i] = m /\ \A j \in 1..(i - 1) : s[j] # m
         IN  <<m>> \o sort_unstable(RemoveAt(s, k))

----------------------------------------------------------------------------
(* StaticLinkedList: src/src/static_linked_list.rs *)

\* How a traversal ends: at a slot (Ok), at the end of the chain without one
\* (NotFound, ErrOOB), in a panic, or never.
NotFound == "not found"
At(i)    == [status |-> Ok, at |-> i]
End(st)  == [status |-> st, at |-> 0]

\* self.nodes[i].as_ref().unwrap() succeeds: i indexes the array and the slot
\* is Some.
Live(ns, i) == i \in Slots /\ ns[i] # None

Result(self, r, p) == [self |-> self, ret |-> r, printed |-> p]

\* StaticLinkedList::new
new ==
    [nodes |-> [i \in Slots |-> None],
     head  |-> None,
     free  |-> [k \in 1..N |-> k - 1]]

\* allocate_node without the remove(0) of line 54: the index stays in free.
allocate_node_NoPop(self, data) ==
    IF self.free = <<>>
    THEN [self |-> self, index |-> None]
    ELSE LET index == Head(self.free)
         IN  [self  |-> [self EXCEPT !.nodes[index] = Some(Node(data, None))],
              index |-> Some(index)]

\* allocate_node: None when free is empty, else takes free[0], writes the node
\* there and returns the index.
allocate_node(self, data) ==
    IF self.free = <<>>
    THEN [self |-> self, index |-> None]
    ELSE LET index == Head(self.free)
         IN  [self  |-> [self EXCEPT !.free = Tail(self.free),
                                     !.nodes[index] = Some(Node(data, None))],
              index |-> Some(index)]

\* deallocate_node without the push: the index never returns to free.
deallocate_node_NoPush(self, index) ==
    [self EXCEPT !.nodes[index] = None]

\* deallocate_node without the clear: the slot keeps its node.
deallocate_node_NoClear(self, index) ==
    [self EXCEPT !.free = sort_unstable(Append(self.free, index))]

\* deallocate_node without the sort of line 70.
deallocate_node_NoSort(self, index) ==
    [self EXCEPT !.nodes[index] = None,
                 !.free = Append(self.free, index)]

\* The three writes of deallocate_node (lines 68, 69 and 70).
ClearSlot(self, index) == [self EXCEPT !.nodes[index] = None]
PushFree(self, index)  == [self EXCEPT !.free = Append(self.free, index)]
SortFree(self)         == [self EXCEPT !.free = sort_unstable(self.free)]

\* deallocate_node: clears the slot, pushes the index on free and sorts free.
deallocate_node(self, index) ==
    SortFree(PushFree(ClearSlot(self, index), index))

\* The loop of insert: from cur, follow next until a node whose next is None.
RECURSIVE TailOf(_, _, _)
TailOf(ns, cur, fuel) ==
    IF ~Live(ns, cur) THEN End(Panic)
    ELSE IF ns[cur][1].next = None THEN At(cur)
    ELSE IF fuel = 0 THEN End(Hang)
    ELSE TailOf(ns, ns[cur][1].next[1], fuel - 1)

\* The counted loops `for _ in 0..k` of the index operations: k times, step
\* from Some(i) to nodes[i].next, and leave early on None.  k < 0 is the usize
\* subtraction index - 1 with index = 0, an overflow panic.
RECURSIVE Advance(_, _, _)
Advance(ns, cur, k) ==
    IF k < 0 THEN [status |-> Panic, cur |-> None]
    ELSE IF k = 0 THEN [status |-> Ok, cur |-> cur]
    ELSE IF cur = None THEN [status |-> ErrOOB, cur |-> None]
    ELSE IF ~Live(ns, cur[1]) THEN [status |-> Panic, cur |-> None]
    ELSE Advance(ns, ns[cur[1]][1].next, k - 1)

\* The while-let loops of update_element and find: the first slot from cur
\* whose data equals data.
RECURSIVE FirstEqual(_, _, _, _)
FirstEqual(ns, cur, data, fuel) ==
    IF cur = None THEN End(NotFound)
    ELSE IF ~Live(ns, cur[1]) THEN End(Panic)
    ELSE IF ns[cur[1]][1].data = data THEN At(cur[1])
    ELSE IF fuel = 0 THEN End(Hang)
    ELSE FirstEqual(ns, ns[cur[1]][1].next, data, fuel - 1)

\* The while-let loop of delete_element: the first slot i from cur whose
\* successor holds data.
RECURSIVE PredOfEqual(_, _, _, _)
PredOfEqual(ns, cur, data, fuel) ==
    IF cur = None THEN End(NotFound)
    ELSE IF ~Live(ns, cur[1]) THEN End(Panic)
    ELSE LET i == cur[1]
             next_index == ns[i][1].next
         IN  IF next_index = None THEN End(NotFound)
             ELSE IF ~Live(ns, next_index[1]) THEN End(Panic)
             ELSE IF ns[next_index[1]][1].data = data THEN At(i)
             ELSE IF fuel = 0 THEN End(Hang)
             ELSE PredOfEqual(ns, next_index, data, fuel - 1)

\* insert linking the new node in front of the chain instead of behind it.
S_insert_AtHead(self, data) ==
    LET a == allocate_node(self, data) IN
    IF a.index # None
    THEN Result([a.self EXCEPT !.nodes[a.index[1]] = Some(Node(data, self.head)),
                               !.head = a.index],
                Unit, FALSE)
    ELSE Result(self, Unit, TRUE)

\* insert
S_insert(self, data) ==
    LET a == allocate_node(self, data) IN
    IF a.index # None
    THEN LET index == a.index[1]
             s1    == a.self
         IN  IF s1.head = None
             THEN Result([s1 EXCEPT !.head = Some(index)], Unit, FALSE)
             ELSE LET t == TailOf(s1.nodes, s1.head[1], N)
                  IN  IF t.status # Ok
                      THEN Result(s1, t.status, FALSE)
                      ELSE Result([s1 EXCEPT !.nodes[t.at] =
                                       Some([s1.nodes[t.at][1] EXCEPT !.next = Some(index)])],
                                  Unit, FALSE)
    ELSE Result(self, Unit, TRUE)

\* The splice without line 143: the new node keeps next = None and the nodes
\* behind slot i are cut off.
SpliceAfter_DropsRest(self, i, data) ==
    LET a == allocate_node(self, data) IN
    IF a.index # None
    THEN IF ~Live(a.self.nodes, i)
         THEN Result(a.self, Panic, FALSE)
         ELSE Result([a.self EXCEPT !.nodes[i] =
                          Some([a.self.nodes[i][1] EXCEPT !.next = a.index])],
                     Ok, FALSE)
    ELSE Result(self, ErrFull, FALSE)

\* The splice with the new node linked back to slot i instead of to the
\* successor of slot i: the chain runs in a circle.
SpliceAfter_BackReference(self, i, data) ==
    LET a == allocate_node(self, data) IN
    IF a.index # None
    THEN LET new_index == a.index[1]
             s1        == a.self
         IN  IF ~Live(s1.nodes, i)
             THEN Result(s1, Panic, FALSE)
             ELSE LET s2 == [s1 EXCEPT !.nodes[new_index] = Some(Node(data, Some(i)))]
                  IN  Result([s2 EXCEPT !.nodes[i] =
                                  Some([s2.nodes[i][1] EXCEPT !.next = Some(new_index)])],
                             Ok, FALSE)
    ELSE Result(self, ErrFull, FALSE)

\* The splice of insert_at_index after slot i (lines 142-148).
SpliceAfter(self, i, data) ==
    LET a == allocate_node(self, data) IN
    IF a.index # None
    THEN LET new_index == a.index[1]
             s1        == a.self
         IN  IF ~Live(s1.nodes, i)
             THEN Result(s1, Panic, FALSE)
             ELSE LET s2 == [s1 EXCEPT !.nodes[new_index] =
                                 Some(Node(data, s1.nodes[i][1].next))]
                  IN  Result([s2 EXCEPT !.nodes[i] =
                                  Some([s2.nodes[i][1] EXCEPT !.next = Some(new_index)])],
                             Ok, FALSE)
    ELSE Result(self, ErrFull, FALSE)

\* insert_at_index testing for a full list before it looks at the index.
S_insert_at_index_FullFirst(self, index, data) ==
    IF self.free = <<>> THEN Result(self, ErrFull, FALSE)
    ELSE IF index = 0
    THEN LET a == allocate_node(self, data)
         IN  Result([a.self EXCEPT !.nodes[a.index[1]] = Some(Node(data, self.head)),
                                   !.head = a.index],
                    Ok, FALSE)
    ELSE LET w == Advance(self.nodes, self.head, index - 1) IN
         IF w.status # Ok THEN Result(self, w.status, FALSE)
         ELSE IF w.cur = None THEN Result(self, ErrOOB, FALSE)
         ELSE SpliceAfter(self, w.cur[1], data)

\* insert_at_index allocating the slot before it walks to the index.
S_insert_at_index_AllocFirst(self, index, data) ==
    LET a == allocate_node(self, data) IN
    IF a.index = None THEN Result(self, ErrFull, FALSE)
    ELSE LET new_index == a.index[1]
             s1        == a.self
         IN  IF index = 0
             THEN Result([s1 EXCEPT !.nodes[new_index] = Some(Node(data, self.head)),
                                    !.head = Some(new_index)],
                         Ok, FALSE)
             ELSE LET w == Advance(self.nodes, self.head, index - 1) IN
                  IF w.status # Ok THEN Result(s1, w.status, FALSE)
                  ELSE IF w.cur = None THEN Result(s1, ErrOOB, FALSE)
                  ELSE LET i  == w.cur[1]
                           s2 == [s1 EXCEPT !.nodes[new_index] =
                                      Some(Node(data, s1.nodes[i][1].next))]
                       IN  Result([s2 EXCEPT !.nodes[i] =
                                       Some([s2.nodes[i][1] EXCEPT !.next = Some(new_index)])],
                                  Ok, FALSE)

\* insert_at_index
S_insert_at_index(self, index, data) ==
    IF index = 0
    THEN LET a == allocate_node(self, data) IN
         IF a.index # None
         THEN LET new_index == a.index[1]
                  s1        == a.self
              IN  Result([s1 EXCEPT !.nodes[new_index] = Some(Node(data, self.head)),
                                    !.head = Some(new_index)],
                         Ok, FALSE)
         ELSE Result(self, ErrFull, FALSE)
    ELSE LET w == Advance(self.nodes, self.head, index - 1) IN
         IF w.status # Ok THEN Result(self, w.status, FALSE)
         ELSE IF w.cur = None THEN Result(self, ErrOOB, FALSE)
         ELSE SpliceAfter(self, w.cur[1], data)

\* UnlinkAfter without the rewiring of slot i: j is freed while i still links
\* to it.
UnlinkAfter_NoRewire(self, i, j) ==
    deallocate_node(self, j)

\* The rewiring left out: slot i keeps its link to slot j.
RewireAfter_Skipped(self, i, j) == self

\* The write of lines 183 and 232: slot i takes over the next of its
\* successor j.
RewireAfter(self, i, j) ==
    [self EXCEPT !.nodes[i] =
         Some([self.nodes[i][1] EXCEPT !.next = self.nodes[j][1].next])]

\* The write of lines 173 and 211: head takes over the next of the head slot.
RewireHead(self, head_index) ==
    [self EXCEPT !.head = self.nodes[head_index][1].next]

\* Unlinks slot j, the successor of slot i, and frees it (lines 183-184 and
\* 232-233).
UnlinkAfter(self, i, j) ==
    deallocate_node(RewireAfter(self, i, j), j)

\* Unlinks the head slot and frees it (lines 172-174 and 211-212).
UnlinkHead(self, head_index) ==
    deallocate_node(RewireHead(self, head_index), head_index)

\* delete_element without the test of the head node (lines 171-176).
S_delete_element_SkipsHead(self, data) ==
    IF self.head = None THEN Result(self, False, FALSE)
    ELSE LET p == PredOfEqual(self.nodes, self.head, data, N) IN
         IF p.status = NotFound THEN Result(self, False, FALSE)
         ELSE IF p.status # Ok THEN Result(self, p.status, FALSE)
         ELSE Result(UnlinkAfter(self, p.at, self.nodes[p.at][1].next[1]), True, FALSE)

\* delete_element
S_delete_element(self, data) ==
    IF self.head = None THEN Result(self, False, FALSE)
    ELSE IF ~Live(self.nodes, self.head[1]) THEN Result(self, Panic, FALSE)
    ELSE IF self.nodes[self.head[1]][1].data = data
    THEN Result(UnlinkHead(self, self.head[1]), True, FALSE)
    ELSE LET p == PredOfEqual(self.nodes, self.head, data, N) IN
         IF p.status = NotFound THEN Result(self, False, FALSE)
         ELSE IF p.status # Ok THEN Result(self, p.status, FALSE)
         ELSE Result(UnlinkAfter(self, p.at, self.nodes[p.at][1].next[1]), True, FALSE)

\* delete_at_index without the index == 0 case of lines 208-216.
S_delete_at_index_NoZeroCase(self, index) ==
    LET w == Advance(self.nodes, self.head, index - 1) IN
    IF w.status # Ok THEN Result(self, w.status, FALSE)
    ELSE IF w.cur = None THEN Result(self, ErrOOB, FALSE)
    ELSE LET i == w.cur[1]
             n == self.nodes[i][1].next
         IN  IF n = None THEN Result(self, ErrOOB, FALSE)
             ELSE Result(UnlinkAfter(self, i, n[1]), Ok, FALSE)

\* delete_at_index walking `0..index` instead of `0..(index - 1)`: it unlinks
\* the node one position too far.
S_delete_at_index_OneTooFar(self, index) ==
    IF index = 0
    THEN IF self.head = None THEN Result(self, ErrOOB, FALSE)
         ELSE Result(UnlinkHead(self, self.head[1]), Ok, FALSE)
    ELSE LET w == Advance(self.nodes, self.head, index) IN
         IF w.status # Ok THEN Result(self, w.status, FALSE)
         ELSE IF w.cur = None THEN Result(self, ErrOOB, FALSE)
         ELSE LET i == w.cur[1]
                  n == self.nodes[i][1].next
              IN  IF n = None THEN Result(self, ErrOOB, FALSE)
                  ELSE Result(UnlinkAfter(self, i, n[1]), Ok, FALSE)

\* delete_at_index
S_delete_at_index(self, index) ==
    IF index = 0
    THEN IF self.head = None THEN Result(self, ErrOOB, FALSE)
         ELSE IF ~Live(self.nodes, self.head[1]) THEN Result(self, Panic, FALSE)
         ELSE Result(UnlinkHead(self, self.head[1]), Ok, FALSE)
    ELSE LET w == Advance(self.nodes, self.head, index - 1) IN
         IF w.status # Ok THEN Result(self, w.status, FALSE)
         ELSE IF w.cur = None THEN Result(self, ErrOOB, FALSE)
         ELSE IF ~Live(self.nodes, w.cur[1]) THEN Result(self, Panic, FALSE)
         ELSE LET i == w.cur[1]
                  n == self.nodes[i][1].next
              IN  IF n = None THEN Result(self, ErrOOB, FALSE)
                  ELSE IF ~Live(self.nodes, n[1]) THEN Result(self, Panic, FALSE)
                  ELSE Result(UnlinkAfter(self, i, n[1]), Ok, FALSE)

\* update_element without the assignment of line 259.
S_update_element_NoWrite(self, old_data, new_data) ==
    LET f == FirstEqual(self.nodes, self.head, old_data, N) IN
    IF f.status = NotFound THEN Result(self, False, FALSE)
    ELSE IF f.status # Ok THEN Result(self, f.status, FALSE)
    ELSE Result(self, True, FALSE)

\* update_element
S_update_element(self, old_data, new_data) ==
    LET f == FirstEqual(self.nodes, self.head, old_data, N) IN
    IF f.status = NotFound THEN Result(self, False, FALSE)
    ELSE IF f.status # Ok THEN Result(self, f.status, FALSE)
    ELSE Result([self EXCEPT !.nodes[f.at] =
                     Some([self.nodes[f.at][1] EXCEPT !.data = new_data])],
                True, FALSE)

\* update_element_at_index walking one link too many.
S_update_element_at_index_OneTooFar(self, index, data) ==
    LET w == Advance(self.nodes, self.head, index + 1) IN
    IF w.status # Ok THEN Result(self, w.status, FALSE)
    ELSE IF w.cur = None THEN Result(self, ErrOOB, FALSE)
    ELSE Result([self EXCEPT !.nodes[w.cur[1]] =
                     Some([self.nodes[w.cur[1]][1] EXCEPT !.data = data])],
                Ok, FALSE)

\* update_element_at_index
S_update_element_at_index(self, index, data) ==
    LET w == Advance(self.nodes, self.head, index) IN
    IF w.status # Ok THEN Result(self, w.status, FALSE)
    ELSE IF w.cur = None THEN Result(self, ErrOOB, FALSE)
    ELSE IF ~Live(self.nodes, w.cur[1]) THEN Result(self, Panic, FALSE)
    ELSE Result([self EXCEPT !.nodes[w.cur[1]] =
                     Some([self.nodes[w.cur[1]][1] EXCEPT !.data = data])],
                Ok, FALSE)

\* find starting behind the head node.
S_find_SkipsHead(self, data) ==
    IF self.head = None THEN False
    ELSE LET f == FirstEqual(self.nodes, self.nodes[self.head[1]][1].next, data, N) IN
         IF f.status = NotFound THEN False
         ELSE IF f.status # Ok THEN f.status
         ELSE True

\* find
S_find(self, data) ==
    LET f == FirstEqual(self.nodes, self.head, data, N) IN
    IF f.status = NotFound THEN False
    ELSE IF f.status # Ok THEN f.status
    ELSE True

\* get walking one link too many.
S_get_OneTooFar(self, index) ==
    LET w == Advance(self.nodes, self.head, index + 1) IN
    IF w.status = Panic THEN Some(0)
    ELSE IF w.cur = None THEN None
    ELSE IF ~Live(self.nodes, w.cur[1]) THEN Some(0)
    ELSE Some(self.nodes[w.cur[1]][1].data)

\* get: Some(data) or None; Some(0), which is no element, stands for the panic
\* of unwrapping an empty slot.
S_get(self, index) ==
    LET w == Advance(self.nodes, self.head, index) IN
    IF w.status = Panic THEN Some(0)
    ELSE IF w.cur = None THEN None
    ELSE IF ~Live(self.nodes, w.cur[1]) THEN Some(0)
    ELSE Some(self.nodes[w.cur[1]][1].data)

----------------------------------------------------------------------------
(* DynamicLinkedList: src/src/dynamic_linked_list.rs.  head is None or       *)
(* Some(node), and a node owns its successor: node.next is None or           *)
(* Some(node).                                                               *)

DResult(h, r) == [head |-> h, ret |-> r]

\* DynamicLinkedList::new
D_new == None

\* The loop of insert without the walk: new_node replaces whatever follows
\* the first node.
AttachAtTail_NoWalk(node, new_node) ==
    [node EXCEPT !.next = Some(new_node)]

\* The while loop of insert: the chain from node with new_node attached to
\* the node whose next is None.
RECURSIVE AttachAtTail(_, _)
AttachAtTail(node, new_node) ==
    IF node.next = None
    THEN [node EXCEPT !.next = Some(new_node)]
    ELSE [node EXCEPT !.next = Some(AttachAtTail(node.next[1], new_node))]

\* insert
D_insert(h, data) ==
    LET new_node == Node(data, None) IN
    IF h = None
    THEN DResult(Some(new_node), Unit)
    ELSE DResult(Some(AttachAtTail(h[1], new_node)), Unit)

\* insert_at_index for index > 0: k steps of `current = &mut node.next`, and
\* then the splice behind *current.
RECURSIVE D_SpliceAfter(_, _, _)
D_SpliceAfter(current, k, data) ==
    IF current = None THEN DResult(None, ErrOOB)
    ELSE IF k = 0
    THEN DResult(Some([current[1] EXCEPT !.next = Some(Node(data, current[1].next))]), Ok)
    ELSE LET r == D_SpliceAfter(current[1].next, k - 1, data)
         IN  DResult(Some([current[1] EXCEPT !.next = r.head]), r.ret)

\* insert_at_index
D_insert_at_index(h, index, data) ==
    IF index = 0
    THEN DResult(Some(Node(data, h)), Ok)
    ELSE D_SpliceAfter(h, index - 1, data)

\* The while-let loop of delete_element: unlinks the first node behind
\* *current whose data equals data.
RECURSIVE D_UnlinkNextEqual(_, _)
D_UnlinkNextEqual(current, data) ==
    IF current = None THEN DResult(None, False)
    ELSE LET node == current[1] IN
         IF node.next # None /\ node.next[1].data = data
         THEN DResult(Some([node EXCEPT !.next = node.next[1].next]), True)
         ELSE LET r == D_UnlinkNextEqual(node.next, data)
              IN  DResult(Some([node EXCEPT !.next = r.head]), r.ret)

\* delete_element
D_delete_element(h, data) ==
    IF h = None THEN DResult(h, False)
    ELSE IF h[1].data = data THEN DResult(h[1].next, True)
    ELSE D_UnlinkNextEqual(h, data)

\* delete_at_index for index > 0 without the test of lines 163-165: behind
\* the last node there is nothing to unlink, and the call returns Ok.
RECURSIVE D_UnlinkAfter_TailOk(_, _)
D_UnlinkAfter_TailOk(current, k) ==
    IF current = None THEN DResult(None, ErrOOB)
    ELSE IF k = 0
    THEN IF current[1].next = None
         THEN DResult(current, Ok)
         ELSE DResult(Some([current[1] EXCEPT !.next = current[1].next[1].next]), Ok)
    ELSE LET r == D_UnlinkAfter_TailOk(current[1].next, k - 1)
         IN  DResult(Some([current[1] EXCEPT !.next = r.head]), r.ret)

\* delete_at_index for index > 0: k steps, then unlinks the node behind
\* *current.
RECURSIVE D_UnlinkAfter(_, _)
D_UnlinkAfter(current, k) ==
    IF current = None THEN DResult(None, ErrOOB)
    ELSE IF k = 0
    THEN IF current[1].next = None
         THEN DResult(current, ErrOOB)
         ELSE DResult(Some([current[1] EXCEPT !.next = current[1].next[1].next]), Ok)
    ELSE LET r == D_UnlinkAfter(current[1].next, k - 1)
         IN  DResult(Some([current[1] EXCEPT !.next = r.head]), r.ret)

\* delete_at_index
D_delete_at_index(h, index) ==
    IF index = 0
    THEN IF h = None THEN DResult(h, ErrOOB) ELSE DResult(h[1].next, Ok)
    ELSE D_UnlinkAfter(h, index - 1)

\* update_element
RECURSIVE D_update_element(_, _, _)
D_update_element(current, old_data, new_data) ==
    IF current = None THEN DResult(None, False)
    ELSE IF current[1].data = old_data
    THEN DResult(Some([current[1] EXCEPT !.data = new_data]), True)
    ELSE LET r == D_update_element(current[1].next, old_data, new_data)
         IN  DResult(Some([current[1] EXCEPT !.next = r.head]), r.ret)

\* update_element_at_index
RECURSIVE D_update_element_at_index(_, _, _)
D_update_element_at_index(current, index, data) ==
    IF current = None THEN DResult(None, ErrOOB)
    ELSE IF index = 0
    THEN DResult(Some([current[1] EXCEPT !.data = data]), Ok)
    ELSE LET r == D_update_element_at_index(current[1].next, index - 1, data)
         IN  DResult(Some([current[1] EXCEPT !.next = r.head]), r.ret)

\* find
RECURSIVE D_find(_, _)
D_find(current, data) ==
    IF current = None THEN False
    ELSE IF current[1].data = data THEN True
    ELSE D_find(current[1].next, data)

\* get
RECURSIVE D_get(_, _)
D_get(current, index) ==
    IF current = None THEN None
    ELSE IF index = 0 THEN Some(current[1].data)
    ELSE D_get(current[1].next, index - 1)

----------------------------------------------------------------------------
(* The array StaticLinkedList: src/tests/static_linked_list_test.rs.  A     *)
(* list is [nodes, size]; an array access outside 0..N-1 is a panic.        *)

AResult(self, r) == [self |-> self, ret |-> r]

\* The array list as one value (self).
ASelf == [nodes |-> anodes, size |-> size]

\* new
A_new == [nodes |-> [i \in Slots |-> None], size |-> 0]

\* insert
A_insert(self, data) ==
    IF self.size >= N THEN AResult(self, ErrFull)
    ELSE AResult([self EXCEPT !.nodes[self.size] = Some(data),
                              !.size = self.size + 1],
                 Ok)

\* The loop of insert_at_index without the .rev(): from index up to i, so
\* that each step moves on what the step before has just moved.
RECURSIVE ShiftUp_Forward(_, _, _)
ShiftUp_Forward(ns, index, i) ==
    IF index > i THEN [status |-> Ok, nodes |-> ns]
    ELSE IF index \notin Slots \/ (index + 1) \notin Slots
    THEN [status |-> Panic, nodes |-> ns]
    ELSE ShiftUp_Forward([ns EXCEPT ![index + 1] = ns[index], ![index] = None],
                         index + 1, i)

\* The loop of insert_at_index, `for i in (index..size).rev()`, from i down:
\* nodes[i + 1] = nodes[i].take().
RECURSIVE ShiftUp(_, _, _)
ShiftUp(ns, index, i) ==
    IF i < index THEN [status |-> Ok, nodes |-> ns]
    ELSE IF i \notin Slots \/ (i + 1) \notin Slots THEN [status |-> Panic, nodes |-> ns]
    ELSE ShiftUp([ns EXCEPT ![i + 1] = ns[i], ![i] = None], index, i - 1)

\* insert_at_index
A_insert_at_index(self, index, data) ==
    IF index > self.size \/ self.size >= N THEN AResult(self, ErrOOBOrFull)
    ELSE LET sh == ShiftUp(self.nodes, index, self.size - 1) IN
         IF sh.status # Ok THEN AResult([self EXCEPT !.nodes = sh.nodes], Panic)
         ELSE AResult([self EXCEPT !.nodes = [sh.nodes EXCEPT ![index] = Some(data)],
                                   !.size = self.size + 1],
                      Ok)

\* The loops of delete_element and delete_at_index, `for j in i..(size - 1)`,
\* from j up: nodes[j] = nodes[j + 1].take().
RECURSIVE ShiftDown(_, _, _)
ShiftDown(ns, j, last) ==
    IF j >= last THEN [status |-> Ok, nodes |-> ns]
    ELSE IF j \notin Slots \/ (j + 1) \notin Slots THEN [status |-> Panic, nodes |-> ns]
    ELSE ShiftDown([ns EXCEPT ![j] = ns[j + 1], ![j + 1] = None], j + 1, last)

\* The removal without lines 90 and 114, nodes[size - 1] = None.
RemovePosition_NoClear(self, i, r) ==
    IF self.size = 0 THEN AResult(self, Panic)
    ELSE LET sh == ShiftDown(self.nodes, i, self.size - 1) IN
         IF sh.status # Ok THEN AResult([self EXCEPT !.nodes = sh.nodes], Panic)
         ELSE AResult([self EXCEPT !.nodes = sh.nodes, !.size = self.size - 1], r)

\* The removal of position i (lines 87-91 and 111-115): shift down, clear the
\* last element, size -= 1.  size - 1 with size = 0 is an overflow panic.
RemovePosition(self, i, r) ==
    IF self.size = 0 THEN AResult(self, Panic)
    ELSE LET sh == ShiftDown(self.nodes, i, self.size - 1) IN
         IF sh.status # Ok THEN AResult([self EXCEPT !.nodes = sh.nodes], Panic)
         ELSE AResult([self EXCEPT !.nodes = [sh.nodes EXCEPT ![self.size - 1] = None],
                                   !.size = self.size - 1],
                      r)

\* The loops `for i in 0..size` of delete_element and update_element: the
\* first position from i on that holds data; size if none does, -1 for an
\* access outside the array.
RECURSIVE FirstPosition(_, _, _)
FirstPosition(self, data, i) ==
    IF i >= self.size THEN self.size
    ELSE IF i \notin Slots THEN -1
    ELSE IF self.nodes[i] = Some(data) THEN i
    ELSE FirstPosition(self, data, i + 1)

\* delete_element
A_delete_element(self, data) ==
    LET i == FirstPosition(self, data, 0) IN
    IF i = -1 THEN AResult(self, Panic)
    ELSE IF i = self.size THEN AResult(self, False)
    ELSE RemovePosition(self, i, True)

\* delete_at_index
A_delete_at_index(self, index) ==
    IF index >= self.size THEN AResult(self, ErrOOB)
    ELSE RemovePosition(self, index, Ok)

\* get; Some(0), which is no element, stands for the panic of an access
\* outside the array.
A_get(self, index) ==
    IF index < self.size
    THEN IF index \in Slots THEN self.nodes[index] ELSE Some(0)
    ELSE None

\* find: any of nodes[..size] equals Some(data); the slice panics when
\* size > N.
A_find(self, data) ==
    IF self.size > N THEN Panic
    ELSE IF \E i \in 0..(self.size - 1) : self.nodes[i] = Some(data) THEN True
    ELSE False

\* update_element without the `return true` of line 165 inside the loop:
\* every element equal to old_data is replaced.
A_update_element_All(self, old_data, new_data) ==
    LET i == FirstPosition(self, old_data, 0) IN
    IF i = -1 THEN AResult(self, Panic)
    ELSE IF i = self.size THEN AResult(self, False)
    ELSE AResult([self EXCEPT !.nodes =
                      [k \in Slots |-> IF k < self.size /\ self.nodes[k] = Some(old_data)
                                       THEN Some(new_data)
                                       ELSE self.nodes[k]]],
                 True)

\* update_element
A_update_element(self, old_data, new_data) ==
    LET i == FirstPosition(self, old_data, 0) IN
    IF i = -1 THEN AResult(self, Panic)
    ELSE IF i = self.size THEN AResult(self, False)
    ELSE AResult([self EXCEPT !.nodes[i] = Some(new_data)], True)

\* update_element_at_index
A_update_element_at_index(self, index, data) ==
    IF index >= self.size THEN AResult(self, ErrOOB)
    ELSE IF index \notin Slots THEN AResult(self, Panic)
    ELSE AResult([self EXCEPT !.nodes[index] = Some(data)], Ok)

----------------------------------------------------------------------------
(* The element sequences the two lists stand for. *)

\* The slot indices met from cur along next, at most fuel + 1 of them.
RECURSIVE ChainFrom(_, _, _)
ChainFrom(ns, cur, fuel) ==
    IF cur = None \/ ~Live(ns, cur[1]) THEN <<>>
    ELSE IF fuel = 0 THEN <<cur[1]>>
    ELSE <<cur[1]>> \o ChainFrom(ns, ns[cur[1]][1].next, fuel - 1)

\* The slots reachable from head, in list order.
Chain(self) == ChainFrom(self.nodes, self.head, N)

\* The elements of the StaticLinkedList, in list order.
SSeq(self) == LET c == Chain(self) IN [k \in 1..Len(c) |-> self.nodes[c[k]][1].data]

\* The elements of the DynamicLinkedList, in list order.
RECURSIVE DSeq(_)
DSeq(h) == IF h = None THEN <<>> ELSE <<h[1].data>> \o DSeq(h[1].next)

\* What the array StaticLinkedList holds at the positions below size, in
\* list order: get(0), ..., get(size - 1).
ASeq(self) == [k \in 1..self.size |-> A_get(self, k - 1)]

SList == SSeq(Self)
DList == DSeq(dhead)
AList == ASeq(ASelf)

----------------------------------------------------------------------------
(* One call of a trait method on the list under test. *)

Static  == "StaticLinkedList"
Dynamic == "DynamicLinkedList"
Array   == "array StaticLinkedList"
\* A StaticLinkedList and a DynamicLinkedList that receive the same calls.
Pair    == "StaticLinkedList and DynamicLinkedList"
\* A StaticLinkedList and an array StaticLinkedList, of the same capacity N,
\* that receive the same calls.
Bounded == "StaticLinkedList and array StaticLinkedList"

\* No call is in progress.
Idle == [at |-> "idle"]

\* The call o, which leaves a StaticLinkedList as r says, a DynamicLinkedList
\* as d says and an array StaticLinkedList as a says.
Call(o, r, d, a) ==
    /\ pc = Idle
    /\ pc' = pc
    /\ op' = o
    /\ kind' = kind
    /\ IF kind \in {Static, Pair, Bounded}
       THEN /\ nodes' = r.self.nodes
            /\ head' = r.self.head
            /\ free' = r.self.free
            /\ ret' = r.ret
            /\ printed' = r.printed
       ELSE UNCHANGED <<nodes, head, free, ret, printed>>
    /\ IF kind \in {Dynamic, Pair}
       THEN /\ dhead' = d.head
            /\ dret' = d.ret
       ELSE UNCHANGED <<dhead, dret>>
    /\ IF kind \in {Array, Bounded}
       THEN /\ anodes' = a.self.nodes
            /\ size' = a.self.size
            /\ aret' = a.ret
       ELSE UNCHANGED <<anodes, size, aret>>

\* A DynamicLinkedList grows without bound: the model stops inserting at
\* MaxLen elements.  The pair is compared below capacity: it receives no
\* insert while the StaticLinkedList holds N elements.
MayGrow ==
    /\ kind = Dynamic => Len(DList) < MaxLen
    /\ kind = Pair => Len(SList) < N

\* The state after new(), for a list of one of the kinds in kinds.
InitOf(kinds) ==
    /\ kind \in kinds
    /\ nodes = new.nodes
    /\ head = new.head
    /\ free = new.free
    /\ dhead = D_new
    /\ op = [name |-> "new"]
    /\ ret = Unit
    /\ dret = Unit
    /\ anodes = A_new.nodes
    /\ size = A_new.size
    /\ aret = Unit
    /\ printed = FALSE
    /\ pc = Idle

Insert(data) ==
    /\ MayGrow
    /\ Call([name |-> "insert", data |-> data],
            S_insert(Self, data), D_insert(dhead, data), A_insert(ASelf, data))

InsertAtIndex(index, data) ==
    /\ MayGrow
    /\ Call([name |-> "insert_at_index", index |-> index, data |-> data],
            S_insert_at_index(Self, index, data),
            D_insert_at_index(dhead, index, data),
            A_insert_at_index(ASelf, index, data))

DeleteElement(data) ==
    Call([name |-> "delete_element", data |-> data],
         S_delete_element(Self, data), D_delete_element(dhead, data),
         A_delete_element(ASelf, data))

DeleteAtIndex(index) ==
    Call([name |-> "delete_at_index", index |-> index],
         S_delete_at_index(Self, index), D_delete_at_index(dhead, index),
         A_delete_at_index(ASelf, index))

UpdateElement(old_data, new_data) ==
    Call([name |-> "update_element", old_data |-> old_data, data |-> new_data],
         S_update_element(Self, old_data, new_data),
         D_update_element(dhead, old_data, new_data),
         A_update_element(ASelf, old_data, new_data))

UpdateElementAtIndex(index, data) ==
    Call([name |-> "update_element_at_index", index |-> index, data |-> data],
         S_update_element_at_index(Self, index, data),
         D_update_element_at_index(dhead, index, data),
         A_update_element_at_index(ASelf, index, data))

Next ==
    \/ \E data \in Values : Insert(data)
    \/ \E index \in Indices, data \in Values : InsertAtIndex(index, data)
    \/ \E data \in Values : DeleteElement(data)
    \/ \E index \in Indices : DeleteAtIndex(index)
    \/ \E old_data \in Values, new_data \in Values : UpdateElement(old_data, new_data)
    \/ \E index \in Indices, data \in Values : UpdateElementAtIndex(index, data)

Init == InitOf({Static, Dynamic, Array})

Spec == Init /\ [][Next]_vars

\* The same calls made on a StaticLinkedList and on a DynamicLinkedList.
InitPair == InitOf({Pair})

SpecPair == InitPair /\ [][Next]_vars

\* The same calls made on a StaticLinkedList and on an array
\* StaticLinkedList, inserts into full lists among them.
InitBounded == InitOf({Bounded})

SpecBounded == InitBounded /\ [][Next]_vars

----------------------------------------------------------------------------
(* The two deletes of the StaticLinkedList with each write to the list as   *)
(* a step of its own: the rewiring of head or of the predecessor, and the   *)
(* three writes of deallocate_node.  pc holds the slot being removed and    *)
(* what the call will return.                                               *)

Busy(at, index, o, r) == [at |-> at, index |-> index, op |-> o, ret |-> r]

Others == <<kind, dhead, dret, anodes, size, aret, printed>>

SetSelf(self) ==
    /\ nodes' = self.nodes
    /\ head' = self.head
    /\ free' = self.free

\* The call o returns r without a write.
Return(o, r) ==
    /\ op' = o
    /\ ret' = r
    /\ pc' = Idle
    /\ UNCHANGED <<nodes, head, free>>

\* The first write of the call o, which leaves the list as self and slot
\* index to be freed.
FirstWrite(self, index, o, r) ==
    /\ SetSelf(self)
    /\ pc' = Busy("rewired", index, o, r)
    /\ UNCHANGED <<op, ret>>

\* delete_element up to and with its first write (lines 165-183).
DeleteElementRewire(data) ==
    /\ kind = Static
    /\ pc = Idle
    /\ UNCHANGED Others
    /\ LET o == [name |-> "delete_element", data |-> data] IN
       IF head = None THEN Return(o, False)
       ELSE IF ~Live(nodes, head[1]) THEN Return(o, Panic)
       ELSE IF nodes[head[1]][1].data = data
       THEN FirstWrite(RewireHead(Self, head[1]), head[1], o, True)
       ELSE LET p == PredOfEqual(nodes, head, data, N) IN
            IF p.status = NotFound THEN Return(o, False)
            ELSE IF p.status # Ok THEN Return(o, p.status)
            ELSE LET j == nodes[p.at][1].next[1]
                 IN  FirstWrite(RewireAfter(Self, p.at, j), j, o, True)

\* delete_at_index up to and with its first write (lines 208-232).
DeleteAtIndexRewire(index) ==
    /\ kind = Static
    /\ pc = Idle
    /\ UNCHANGED Others
    /\ LET o == [name |-> "delete_at_index", index |-> index] IN
       IF index = 0
       THEN IF head = None THEN Return(o, ErrOOB)
            ELSE IF ~Live(nodes, head[1]) THEN Return(o, Panic)
            ELSE FirstWrite(RewireHead(Self, head[1]), head[1], o, Ok)
       ELSE LET w == Advance(nodes, head, index - 1) IN
            IF w.status # Ok THEN Return(o, w.status)
            ELSE IF w.cur = None THEN Return(o, ErrOOB)
            ELSE IF ~Live(nodes, w.cur[1]) THEN Return(o, Panic)
            ELSE LET i == w.cur[1]
                     n == nodes[i][1].next
                 IN  IF n = None THEN Return(o, ErrOOB)
                     ELSE IF ~Live(nodes, n[1]) THEN Return(o, Panic)
                     ELSE FirstWrite(RewireAfter(Self, i, n[1]), n[1], o, Ok)

\* deallocate_node, line 68.
DeallocateClear ==
    /\ pc.at = "rewired"
    /\ SetSelf(ClearSlot(Self, pc.index))
    /\ pc' = [pc EXCEPT !.at = "cleared"]
    /\ UNCHANGED <<op, ret>>
    /\ UNCHANGED Others

\* deallocate_node, line 69.
DeallocatePush ==
    /\ pc.at = "cleared"
    /\ SetSelf(PushFree(Self, pc.index))
    /\ pc' = [pc EXCEPT !.at = "pushed"]
    /\ UNCHANGED <<op, ret>>
    /\ UNCHANGED Others

\* deallocate_node, line 70, and the return of the delete.
DeallocateSort ==
    /\ pc.at = "pushed"
    /\ SetSelf(SortFree(Self))
    /\ op' = pc.op
    /\ ret' = pc.ret
    /\ pc' = Idle
    /\ UNCHANGED Others

NextSteps ==
    \/ \E data \in Values : Insert(data)
    \/ \E index \in Indices, data \in Values : InsertAtIndex(index, data)
    \/ \E data \in Values : DeleteElementRewire(data)
    \/ \E index \in Indices : DeleteAtIndexRewire(index)
    \/ DeallocateClear
    \/ DeallocatePush
    \/ DeallocateSort

InitSteps == InitOf({Static})

SpecSteps == InitSteps /\ [][NextSteps]_vars

----------------------------------------------------------------------------
(* The operations of the StaticLinkedList with every turn of a traversal    *)
(* loop as a step of its own.  A call begins with the code in front of its  *)
(* loop; then each step is one turn of the loop, which either follows one    *)
(* next link or leaves the loop, runs the code behind it and returns.        *)
(* While a call runs, pc holds the call, current_index (cur), the turns a    *)
(* counted loop still has to make (left), the slot insert has allocated      *)
(* (new_index) and the number of next links followed so far (steps).         *)

\* The call has not returned yet.
Running == "running"

\* No loop of the code follows more links than the list has slots: the model
\* follows no link beyond MaxSteps.
MaxSteps == N + 2

\* The usize arguments tried on the StaticLinkedList: every position of a
\* full list, its length, and beyond.
StaticIndices == 0..(N + 1)

InLoop(o, cur, left, new_index) ==
    [at |-> "walk", op |-> o, cur |-> cur, left |-> left,
     new_index |-> new_index, steps |-> 0]

WalkOthers == <<kind, dhead, dret, anodes, size, aret>>

\* The call o enters its loop at cur with the list as self.
Enter(o, self, cur, left, new_index) ==
    /\ SetSelf(self)
    /\ op' = o
    /\ ret' = Running
    /\ printed' = FALSE
    /\ pc' = InLoop(o, cur, left, new_index)

\* The call o returns r and leaves the list as self.
Leave(o, self, r, p) ==
    /\ SetSelf(self)
    /\ op' = o
    /\ ret' = r
    /\ printed' = p
    /\ pc' = Idle

\* current_index = self.nodes[i].as_ref().unwrap().next
Follow(ns, i) == ns[i][1].next

\* One turn of a loop that moves current_index to n.
Move(n, left) ==
    /\ pc.steps < MaxSteps
    /\ pc' = [pc EXCEPT !.cur = n, !.left = left, !.steps = @ + 1]
    /\ UNCHANGED <<nodes, head, free, op, ret, printed>>

\* insert up to its loop (lines 80-87 and 100-103).
BeginInsert(data) ==
    /\ kind = Static
    /\ pc = Idle
    /\ UNCHANGED WalkOthers
    /\ LET o == [name |-> "insert", data |-> data]
           a == allocate_node(Self, data)
       IN  IF a.index = None THEN Leave(o, Self, Unit, TRUE)
           ELSE IF head = None
           THEN Leave(o, [a.self EXCEPT !.head = a.index], Unit, FALSE)
           ELSE Enter(o, a.self, head, 0, a.index[1])

\* One turn of the loop of insert (lines 88-98).
StepInsert ==
    /\ pc.at = "walk"
    /\ pc.op.name = "insert"
    /\ UNCHANGED WalkOthers
    /\ LET i == pc.cur[1] IN
       IF ~Live(nodes, i) THEN Leave(pc.op, Self, Panic, FALSE)
       ELSE IF Follow(nodes, i) = None
       THEN Leave(pc.op,
                  [Self EXCEPT !.nodes[i] =
                       Some([nodes[i][1] EXCEPT !.next = Some(pc.new_index)])],
                  Unit, FALSE)
       ELSE Move(Follow(nodes, i), 0)

\* insert_at_index up to its loop (lines 117-129).
BeginInsertAtIndex(index, data) ==
    /\ kind = Static
    /\ pc = Idle
    /\ UNCHANGED WalkOthers
    /\ LET o == [name |-> "insert_at_index", index |-> index, data |-> data] IN
       IF index = 0
       THEN LET r == S_insert_at_index(Self, 0, data)
            IN  Leave(o, r.self, r.ret, r.printed)
       ELSE Enter(o, Self, head, index - 1, 0)

\* delete_at_index up to its loop (lines 207-219).
BeginDeleteAtIndex(index) ==
    /\ kind = Static
    /\ pc = Idle
    /\ UNCHANGED WalkOthers
    /\ LET o == [name |-> "delete_at_index", index |-> index] IN
       IF index = 0
       THEN LET r == S_delete_at_index(Self, 0)
            IN  Leave(o, r.self, r.ret, r.printed)
       ELSE Enter(o, Self, head, index - 1, 0)

\* update_element_at_index up to its loop (lines 278-279).
BeginUpdateElementAtIndex(index, data) ==
    /\ kind = Static
    /\ pc = Idle
    /\ UNCHANGED WalkOthers
    /\ Enter([name |-> "update_element_at_index", index |-> index, data |-> data],
             Self, head, index, 0)

\* get up to its loop (lines 329-330).
BeginGet(index) ==
    /\ kind = Static
    /\ pc = Idle
    /\ UNCHANGED WalkOthers
    /\ Enter([name |-> "get", index |-> index], Self, head, index, 0)

\* What get returns, written like the results of the other calls: "None",
\* "Some(1)", ...
Shown(option) ==
    IF option = None THEN "None" ELSE "Some(" \o ToString(option[1]) \o ")"

\* The code behind the counted loop of the call o, which the loop has left
\* with current_index = cur (lines 140-151, 229-240, 289-295 and 340-343).
AfterCounted(o, cur) ==
    IF o.name = "insert_at_index"
    THEN IF cur = None THEN Result(Self, ErrOOB, FALSE)
         ELSE SpliceAfter(Self, cur[1], o.data)
    ELSE IF o.name = "delete_at_index"
    THEN IF cur = None THEN Result(Self, ErrOOB, FALSE)
         ELSE IF ~Live(nodes, cur[1]) THEN Result(Self, Panic, FALSE)
         ELSE LET n == Follow(nodes, cur[1]) IN
              IF n = None THEN Result(Self, ErrOOB, FALSE)
              ELSE IF ~Live(nodes, n[1]) THEN Result(Self, Panic, FALSE)
              ELSE Result(UnlinkAfter(Self, cur[1], n[1]), Ok, FALSE)
    ELSE IF o.name = "update_element_at_index"
    THEN IF cur = None THEN Result(Self, ErrOOB, FALSE)
         ELSE IF ~Live(nodes, cur[1]) THEN Result(Self, Panic, FALSE)
         ELSE Result([Self EXCEPT !.nodes[cur[1]] =
                          Some([nodes[cur[1]][1] EXCEPT !.data = o.data])],
                     Ok, FALSE)
    ELSE IF cur = None THEN Result(Self, Shown(None), FALSE)
         ELSE IF ~Live(nodes, cur[1]) THEN Result(Self, Panic, FALSE)
         ELSE Result(Self, Shown(Some(nodes[cur[1]][1].data)), FALSE)

\* One turn of a counted loop `for _ in 0..k` (lines 130-139, 220-227,
\* 280-287 and 331-338), or the code behind it once the k turns are made.
StepCounted ==
    /\ pc.at = "walk"
    /\ pc.op.name \in {"insert_at_index", "delete_at_index",
                       "update_element_at_index", "get"}
    /\ UNCHANGED WalkOthers
    /\ IF pc.left = 0
       THEN LET r == AfterCounted(pc.op, pc.cur)
            IN  Leave(pc.op, r.self, r.ret, r.printed)
       ELSE IF pc.cur = None
       THEN Leave(pc.op, Self,
                  IF pc.op.name = "get" THEN Shown(None) ELSE ErrOOB, FALSE)
       ELSE IF ~Live(nodes, pc.cur[1]) THEN Leave(pc.op, Self, Panic, FALSE)
       ELSE Move(Follow(nodes, pc.cur[1]), pc.left - 1)

\* update_element up to its loop (line 256).
BeginUpdateElement(old_data, new_data) ==
    /\ kind = Static
    /\ pc = Idle
    /\ UNCHANGED WalkOthers
    /\ Enter([name |-> "update_element", old_data |-> old_data, data |-> new_data],
             Self, head, 0, 0)

\* find up to its loop (line 309).
BeginFind(data) ==
    /\ kind = Static
    /\ pc = Idle
    /\ UNCHANGED WalkOthers
    /\ Enter([name |-> "find", data |-> data], Self, head, 0, 0)

\* One turn of the while-let loop of update_element or find (lines 257-264
\* and 310-316).
StepFirstEqual ==
    /\ pc.at = "walk"
    /\ pc.op.name \in {"update_element", "find"}
    /\ UNCHANGED WalkOthers
    /\ IF pc.cur = None THEN Leave(pc.op, Self, False, FALSE)
       ELSE IF ~Live(nodes, pc.cur[1]) THEN Leave(pc.op, Self, Panic, FALSE)
       ELSE LET i == pc.cur[1] IN
            IF pc.op.name = "find"
            THEN IF nodes[i][1].data = pc.op.data
                 THEN Leave(pc.op, Self, True, FALSE)
                 ELSE Move(Follow(nodes, i), 0)
            ELSE IF nodes[i][1].data = pc.op.old_data
                 THEN Leave(pc.op,
                            [Self EXCEPT !.nodes[i] =
                                 Some([nodes[i][1] EXCEPT !.data = pc.op.data])],
                            True, FALSE)
                 ELSE Move(Follow(nodes, i), 0)

\* delete_element up to its loop (lines 164-176).
BeginDeleteElement(data) ==
    /\ kind = Static
    /\ pc = Idle
    /\ UNCHANGED WalkOthers
    /\ LET o == [name |-> "delete_element", data |-> data] IN
       IF head = None THEN Leave(o, Self, False, FALSE)
       ELSE IF ~Live(nodes, head[1]) THEN Leave(o, Self, Panic, FALSE)
       ELSE IF nodes[head[1]][1].data = data
       THEN Leave(o, UnlinkHead(Self, head[1]), True, FALSE)
       ELSE Enter(o, Self, head, 0, 0)

\* One turn of the while-let loop of delete_element (lines 178-194).
StepDeleteElement ==
    /\ pc.at = "walk"
    /\ pc.op.name = "delete_element"
    /\ UNCHANGED WalkOthers
    /\ IF pc.cur = None THEN Leave(pc.op, Self, False, FALSE)
       ELSE IF ~Live(nodes, pc.cur[1]) THEN Leave(pc.op, Self, Panic, FALSE)
       ELSE LET i          == pc.cur[1]
                next_index == Follow(nodes, i)
            IN  IF next_index = None THEN Leave(pc.op, Self, False, FALSE)
                ELSE IF ~Live(nodes, next_index[1]) THEN Leave(pc.op, Self, Panic, FALSE)
                ELSE IF nodes[next_index[1]][1].data = pc.op.data
                THEN Leave(pc.op, UnlinkAfter(Self, i, next_index[1]), True, FALSE)
                ELSE Move(next_index, 0)

\* A call in progress makes its next turn.
WalkStep ==
    \/ StepInsert
    \/ StepCounted
    \/ StepFirstEqual
    \/ StepDeleteElement

NextWalk ==
    \/ \E data \in Values : BeginInsert(data)
    \/ \E index \in StaticIndices, data \in Values : BeginInsertAtIndex(index, data)
    \/ \E data \in Values : BeginDeleteElement(data)
    \/ \E index \in StaticIndices : BeginDeleteAtIndex(index)
    \/ \E old_data \in Values, new_data \in Values : BeginUpdateElement(old_data, new_data)
    \/ \E index \in StaticIndices, data \in Values : BeginUpdateElementAtIndex(index, data)
    \/ \E data \in Values : BeginFind(data)
    \/ \E index \in StaticIndices : BeginGet(index)
    \/ WalkStep

InitWalk == InitOf({Static})

\* The list has one caller and no operation yields: a call that has begun
\* keeps making turns.
SpecWalk == InitWalk /\ [][NextWalk]_vars /\ WF_vars(WalkStep)

----------------------------------------------------------------------------
(* Vocabulary of the properties. *)

\* s with v placed before the element at 0-based position i.
InsertAt(s, i, v) == SubSeq(s, 1, i) \o <<v>> \o SubSeq(s, i + 1, Len(s))

Occurs(s, x)     == \E k \in 1..Len(s) : s[k] = x
Count(s, x)      == Cardinality({k \in 1..Len(s) : s[k] = x})
FirstIndex(s, x) == CHOOSE k \in 1..Len(s) : s[k] = x /\ \A j \in 1..(k - 1) : s[j] # x
NoRepeat(s)      == \A a, b \in 1..Len(s) : a # b => s[a] # s[b]

FreeSet   == {free[k] : k \in 1..Len(free)}
Reachable == {Chain(Self)[k] : k \in 1..Len(Chain(Self))}
Occupied  == {i \in Slots : nodes[i] # None}

----------------------------------------------------------------------------
\* C1: on a StaticLinkedList, insert appends while fewer than N elements are
\* held, and an insert into a list that already holds N elements returns a
\* "list is full" failure to the caller and leaves the elements unchanged.
C1_FullInsertIsReported ==
    [][(kind = Static /\ op'.name = "insert") =>
         IF Len(SList) < N
         THEN ret' = Unit /\ SList' = Append(SList, op'.data)
         ELSE ret' = ErrFull /\ SList' = SList]_vars

\* C2: free and the slots reachable from head partition 0..N-1.
C2_FreeAndReachablePartition ==
    /\ FreeSet \cap Reachable = {}
    /\ FreeSet \cup Reachable = Slots

\* A slot was freed and the list is neither empty nor full.
C2_Witness ==
    /\ kind = Static
    /\ op.name \in {"delete_element", "delete_at_index"}
    /\ ret \in {Ok, True}
    /\ Len(free) = 1
    /\ free # <<N - 1>>

\* C3: every slot reachable from head is occupied, every next of an occupied
\* slot is None or an occupied slot, and the chain from head repeats no slot
\* and ends at a slot whose next is None.
C3_ChainWellFormed ==
    /\ head # None => Live(nodes, head[1])
    /\ \A i \in Occupied :
          nodes[i][1].next = None \/ Live(nodes, nodes[i][1].next[1])
    /\ LET c == Chain(Self)
       IN  /\ NoRepeat(c)
           /\ c # <<>> => nodes[c[Len(c)]][1].next = None
           /\ (c = <<>>) = (head = None)

\* An insert_at_index spliced a node between two others and filled the list.
C3_Witness ==
    /\ kind = Static
    /\ op.name = "insert_at_index"
    /\ ret = Ok
    /\ op.index > 0
    /\ op.index + 1 < Len(SList)
    /\ free = <<>>

\* C4: free repeats no index, a slot is empty exactly when its index is in
\* free (so the slot allocate_node takes is empty), the occupied slots are as
\* many as the elements, and no occupied slot links to a free index.
C4_FreeIsExactlyTheEmptySlots ==
    /\ NoRepeat(free)
    /\ \A i \in Slots : (nodes[i] = None) <=> (i \in FreeSet)
    /\ free # <<>> => nodes[Head(free)] = None
    /\ Cardinality(Occupied) = Len(SList)
    /\ \A i \in Occupied :
          nodes[i][1].next = None \/ nodes[i][1].next[1] \notin FreeSet

\* An insert took the slot a delete had freed: slot 0 now follows slot 1.
C4_Witness ==
    /\ kind = Static
    /\ op.name = "insert"
    /\ ~printed
    /\ Len(Chain(Self)) >= 2
    /\ Chain(Self)[Len(Chain(Self))] = 0

\* C5: a call that returns Err (insert_at_index, delete_at_index,
\* update_element_at_index) or false (delete_element, update_element) leaves
\* the list as it was: nodes, head and free of a StaticLinkedList, the chain
\* of a DynamicLinkedList.
Failed(o, r) ==
    \/ o.name \in {"insert_at_index", "delete_at_index", "update_element_at_index"}
       /\ r \in {ErrOOB, ErrFull}
    \/ o.name \in {"delete_element", "update_element"} /\ r = False

C5_FailureLeavesListUnchanged ==
    [][/\ (kind = Static /\ Failed(op', ret')) =>
            (nodes' = nodes /\ head' = head /\ free' = free /\ SList' = SList)
       /\ (kind = Dynamic /\ Failed(op', dret')) =>
            (dhead' = dhead /\ DList' = DList)]_vars

\* An insert_at_index beyond the end of a list that is neither empty nor full
\* has failed.
C5_Witness ==
    /\ kind = Static
    /\ op.name = "insert_at_index"
    /\ ret = ErrOOB
    /\ head # None
    /\ free # <<>>

\* C6: with length the number of live elements, get(i) is the i-th element
\* from head for every i < length, so that i = 0..length-1 enumerates the
\* list in order, and get(i) is None for i = length and every larger i.
C6_GetEnumeratesTheList ==
    /\ Cardinality(Occupied) = Len(SList)
    /\ \A i \in Indices :
          S_get(Self, i) = IF i < Cardinality(Occupied) THEN Some(SList[i + 1]) ELSE None
    /\ \A i \in Indices :
          D_get(dhead, i) = IF i < Len(DList) THEN Some(DList[i + 1]) ELSE None

\* A full StaticLinkedList whose list order is not the order of its slots.
C6_Witness ==
    /\ kind = Static
    /\ free = <<>>
    /\ \E k \in 1..(N - 1) : Chain(Self)[k] > Chain(Self)[k + 1]
    /\ \E k \in 1..(N - 1) : SList[k] # SList[k + 1]

\* C7 as claimed: in every reachable state of either list, get(length-1)
\* right after insert(x) is x, and the elements held before keep their
\* positions.
InsertRoundTrip(x, before, after, last) ==
    /\ after # <<>>
    /\ last = Some(x)
    /\ SubSeq(after, 1, Len(before)) = before

C7_InsertThenGetLast_EveryState ==
    [][op'.name = "insert" =>
         /\ kind = Static =>
              InsertRoundTrip(op'.data, SList, SList', S_get(Self', Len(SList') - 1))
         /\ kind = Dynamic =>
              InsertRoundTrip(op'.data, DList, DList', D_get(dhead', Len(DList') - 1))]_vars

\* C7 as amended: the same for a DynamicLinkedList in every state and for a
\* StaticLinkedList that has a free slot; a full StaticLinkedList is left as
\* it was, so that get(length-1) is the element that was last before.
C7_InsertThenGetLast ==
    [][op'.name = "insert" =>
         /\ (kind = Static /\ free # <<>>) =>
              InsertRoundTrip(op'.data, SList, SList', S_get(Self', Len(SList') - 1))
         /\ (kind = Static /\ free = <<>>) =>
              (SList' = SList /\ S_get(Self', Len(SList') - 1) = Some(SList[Len(SList)]))
         /\ kind = Dynamic =>
              InsertRoundTrip(op'.data, DList, DList', D_get(dhead', Len(DList') - 1))]_vars

\* An insert has put a third element behind two others.
C7_Witness ==
    /\ kind = Static
    /\ op.name = "insert"
    /\ ~printed
    /\ Len(SList) = N
    /\ SList[N] = op.data
    /\ SList[N - 1] # op.data

\* C8: insert_at_index(i, v) with i <= length (and a free slot, on a
\* StaticLinkedList) returns Ok and turns the elements s into
\* s[0..i] ++ [v] ++ s[i..].
C8_InsertAtIndexPlacesBefore ==
    [][op'.name = "insert_at_index" =>
         /\ (kind = Static /\ op'.index <= Len(SList) /\ free # <<>>) =>
              (ret' = Ok /\ SList' = InsertAt(SList, op'.index, op'.data))
         /\ (kind = Dynamic /\ op'.index <= Len(DList)) =>
              (dret' = Ok /\ DList' = InsertAt(DList, op'.index, op'.data))]_vars

\* An insert_at_index has placed an element between two others.
C8_Witness ==
    /\ kind = Static
    /\ op.name = "insert_at_index"
    /\ ret = Ok
    /\ op.index > 0
    /\ op.index + 1 < Len(SList)
    /\ SList[op.index + 1] = op.data
    /\ SList[op.index + 2] # op.data

\* C9: insert_at_index(i, v) with i > length returns the index error on both
\* lists, on a full StaticLinkedList too; with i <= length a full
\* StaticLinkedList returns the "List is full" error; a DynamicLinkedList
\* returns Err only when i > length.
C9_InsertAtIndexErrors ==
    [][op'.name = "insert_at_index" =>
         /\ kind = Static =>
              ret' = IF op'.index > Len(SList) THEN ErrOOB
                     ELSE IF free = <<>> THEN ErrFull
                     ELSE Ok
         /\ kind = Dynamic =>
              dret' = IF op'.index > Len(DList) THEN ErrOOB ELSE Ok]_vars

\* An insert_at_index beyond the end of a full StaticLinkedList has failed.
C9_Witness ==
    /\ kind = Static
    /\ op.name = "insert_at_index"
    /\ ret = ErrOOB
    /\ free = <<>>

\* C10: delete_element(x) returns true exactly when some element equals x,
\* and then removes the first such element and no other; find(x) afterwards
\* is true exactly when x occurred more than once.
DeleteElementOutcome(x, before, after, r, found) ==
    /\ r = IF Occurs(before, x) THEN True ELSE False
    /\ Occurs(before, x) =>
         /\ after = RemoveAt(before, FirstIndex(before, x))
         /\ found = IF Count(before, x) > 1 THEN True ELSE False

C10_DeleteElementRemovesFirst ==
    [][op'.name = "delete_element" =>
         /\ kind = Static =>
              DeleteElementOutcome(op'.data, SList, SList', ret', S_find(Self', op'.data))
         /\ kind = Dynamic =>
              DeleteElementOutcome(op'.data, DList, DList', dret', D_find(dhead', op'.data))]_vars

\* A delete_element has removed one of two equal elements: the other one is
\* still found, behind a different element.
C10_Witness ==
    /\ kind = Static
    /\ op.name = "delete_element"
    /\ ret = True
    /\ Len(SList) = N - 1
    /\ SList[1] # op.data
    /\ S_find(Self, op.data) = True

\* C11: delete_at_index(i) returns Ok exactly when i < length, and then
\* removes the element at position i and no other; it returns the index
\* error exactly when i >= length, and then changes nothing.
DeleteAtIndexOutcome(i, before, after, r) ==
    IF i < Len(before)
    THEN r = Ok /\ after = RemoveAt(before, i + 1)
    ELSE r = ErrOOB /\ after = before

C11_DeleteAtIndexRemovesThatElement ==
    [][op'.name = "delete_at_index" =>
         /\ kind = Static => DeleteAtIndexOutcome(op'.index, SList, SList', ret')
         /\ kind = Dynamic => DeleteAtIndexOutcome(op'.index, DList, DList', dret')]_vars

\* A delete_at_index has removed the element between two different ones.
C11_Witness ==
    /\ kind = Static
    /\ op.name = "delete_at_index"
    /\ ret = Ok
    /\ op.index = 1
    /\ Len(SList) = N - 1
    /\ SList[1] # SList[2]

\* C12: update_element(old, new) returns true exactly when some element
\* equals old, and then replaces the first such element by new and leaves
\* the length and every other position as they were.
UpdateElementOutcome(old_data, new_data, before, after, r) ==
    /\ r = IF Occurs(before, old_data) THEN True ELSE False
    /\ Occurs(before, old_data) =>
         after = [before EXCEPT ![FirstIndex(before, old_data)] = new_data]

C12_UpdateElementReplacesFirst ==
    [][op'.name = "update_element" =>
         /\ kind = Static =>
              UpdateElementOutcome(op'.old_data, op'.data, SList, SList', ret')
         /\ kind = Dynamic =>
              UpdateElementOutcome(op'.old_data, op'.data, DList, DList', dret')]_vars

\* An update_element has replaced the first of two equal elements: the
\* second still holds the old value.
C12_Witness ==
    /\ kind = Static
    /\ op.name = "update_element"
    /\ ret = True
    /\ op.old_data # op.data
    /\ \E k \in 1..Len(SList) :
          /\ SList[k] = op.data
          /\ \E j \in (k + 1)..Len(SList) : SList[j] = op.old_data

\* C13: update_element_at_index(i, v) returns Ok exactly when i < length,
\* and then position i holds v (get(i) is v) and the length and every other
\* position are as before; it returns the index error exactly when
\* i >= length.
UpdateAtIndexOutcome(i, v, before, after, r, got) ==
    IF i < Len(before)
    THEN r = Ok /\ after = [before EXCEPT ![i + 1] = v] /\ got = Some(v)
    ELSE r = ErrOOB

C13_UpdateAtIndexOverwritesThatElement ==
    [][op'.name = "update_element_at_index" =>
         /\ kind = Static =>
              UpdateAtIndexOutcome(op'.index, op'.data, SList, SList', ret',
                                   S_get(Self', op'.index))
         /\ kind = Dynamic =>
              UpdateAtIndexOutcome(op'.index, op'.data, DList, DList', dret',
                                   D_get(dhead', op'.index))]_vars

\* An update_element_at_index has overwritten the last element of a full
\* list with a value the element before it does not hold.
C13_Witness ==
    /\ kind = Static
    /\ op.name = "update_element_at_index"
    /\ ret = Ok
    /\ op.index = N - 1
    /\ free = <<>>
    /\ SList[N - 1] # op.data

\* C14: find(x) is true exactly when an element reachable from head equals
\* x.
C14_FindIffSomeLiveElementEquals ==
    \A x \in Values :
        /\ S_find(Self, x) = IF Occurs(SList, x) THEN True ELSE False
        /\ D_find(dhead, x) = IF Occurs(DList, x) THEN True ELSE False

\* A delete_element has removed the only element equal to its argument from a
\* list that still holds others: the value is no longer found.
C14_Witness ==
    /\ kind = Static
    /\ op.name = "delete_element"
    /\ ret = True
    /\ head # None
    /\ S_find(Self, op.data) = False

\* C16: no operation panics, in any reachable state and for any argument: no
\* call has ended in the unwrap of an empty slot, an index outside the slot
\* array or an overflow of index - 1, no get or find would, and on an empty
\* list get(0) is None and delete_at_index(0) and
\* update_element_at_index(0, _) are Err.
C16_NoOperationPanics ==
    /\ ret # Panic
    /\ dret # Panic
    /\ \A i \in Indices : S_get(Self, i) # Some(0)
    /\ \A x \in Values : S_find(Self, x) # Panic
    /\ head = None =>
          /\ S_get(Self, 0) = None
          /\ S_delete_at_index(Self, 0).ret = ErrOOB
          /\ \A v \in Values : S_update_element_at_index(Self, 0, v).ret = ErrOOB
    /\ dhead = None =>
          /\ D_get(dhead, 0) = None
          /\ D_delete_at_index(dhead, 0).ret = ErrOOB
          /\ \A v \in Values : D_update_element_at_index(dhead, 0, v).ret = ErrOOB

\* delete_at_index(0) has been called on an empty StaticLinkedList and has
\* returned Err.
C16_Witness ==
    /\ kind = Static
    /\ op.name = "delete_at_index"
    /\ op.index = 0
    /\ ret = ErrOOB
    /\ head = None

\* C17: a DynamicLinkedList never reports a full list: insert(x) attaches x
\* as the new tail, as head when the list is empty, and the length grows by
\* exactly one; insert_at_index(0, v) always succeeds.
C17_DynamicListNeverFull ==
    [][kind = Dynamic =>
         /\ dret' # ErrFull
         /\ op'.name = "insert" =>
              /\ dret' = Unit
              /\ DList' = Append(DList, op'.data)
              /\ Len(DList') = Len(DList) + 1
              /\ dhead = None => dhead' = Some(Node(op'.data, None))
         /\ (op'.name = "insert_at_index" /\ op'.index = 0) =>
              (dret' = Ok /\ DList' = <<op'.data>> \o DList)]_vars

\* An insert has made a DynamicLinkedList longer than the capacity of the
\* StaticLinkedList.
C17_Witness ==
    /\ kind = Dynamic
    /\ op.name = "insert"
    /\ Len(DList) = N + 1
    /\ DList[N + 1] = op.data
    /\ DList[N] # op.data

\* C19: free starts as 0, 1, ..., N-1 and is strictly ascending in every
\* reachable state; allocate_node returns None exactly when free is empty and
\* otherwise takes the smallest free index out of free and returns it.
C19_FreeIsSortedAndLowestIsTaken ==
    /\ op.name = "new" => free = [k \in 1..N |-> k - 1]
    /\ \A k \in 1..(Len(free) - 1) : free[k] < free[k + 1]
    /\ \A x \in Values :
          LET a == allocate_node(Self, x) IN
          IF free = <<>>
          THEN a.index = None
          ELSE /\ a.index # None
               /\ \A i \in FreeSet : a.index[1] <= i
               /\ a.index[1] \in FreeSet
               /\ {a.self.free[k] : k \in 1..Len(a.self.free)} = FreeSet \ {a.index[1]}
               /\ Len(a.self.free) = Len(free) - 1

\* A delete has returned slot 0 to a pool that holds a larger index, and the
\* list is not empty.
C19_Witness ==
    /\ kind = Static
    /\ op.name \in {"delete_element", "delete_at_index"}
    /\ ret \in {Ok, True}
    /\ head # None
    /\ Len(free) >= 2
    /\ free[1] = 0

\* C20: on the array StaticLinkedList, insert returns Err("List is full")
\* exactly when size = N, and insert_at_index returns Err exactly when
\* index > size or size = N; a call that returns Err leaves nodes and size
\* as they were; a call that returns Ok adds one to size, puts the element
\* at its position (size for insert) and moves the elements at positions
\* >= index up by one.
PlacedAt(index, data) ==
    /\ size' = size + 1
    /\ \A k \in Slots :
          anodes'[k] = IF k < index THEN anodes[k]
                       ELSE IF k = index THEN Some(data)
                       ELSE anodes[k - 1]

C20_ArrayInsertErrorsAndShifts ==
    [][kind = Array =>
         /\ op'.name = "insert" =>
              IF size = N
              THEN aret' = ErrFull /\ anodes' = anodes /\ size' = size
              ELSE aret' = Ok /\ PlacedAt(size, op'.data)
         /\ op'.name = "insert_at_index" =>
              IF op'.index > size \/ size = N
              THEN aret' = ErrOOBOrFull /\ anodes' = anodes /\ size' = size
              ELSE aret' = Ok /\ PlacedAt(op'.index, op'.data)]_vars

\* An insert_at_index(0, v) has filled the array and moved up two elements
\* that differ.
C20_Witness ==
    /\ kind = Array
    /\ op.name = "insert_at_index"
    /\ op.index = 0
    /\ aret = Ok
    /\ size = N
    /\ anodes[0] = Some(op.data)
    /\ anodes[N - 2] # anodes[N - 1]

\* C15: a StaticLinkedList and a DynamicLinkedList that receive the same
\* sequence of calls, with no insert or insert_at_index issued while the
\* StaticLinkedList holds N elements, return the same result at every step,
\* answer every get and find alike and hold the same elements.
C15_StaticAndDynamicAgreeBelowCapacity ==
    kind = Pair =>
        /\ ret = dret
        /\ SList = DList
        /\ \A i \in Indices : S_get(Self, i) = D_get(dhead, i)
        /\ \A x \in Values : S_find(Self, x) = D_find(dhead, x)

\* Both lists have accepted an insert_at_index that filled the
\* StaticLinkedList, whose list order is not the order of its slots.
C15_Witness ==
    /\ kind = Pair
    /\ op.name = "insert_at_index"
    /\ ret = Ok
    /\ dret = Ok
    /\ Len(SList) = N
    /\ Len(DList) = N
    /\ Chain(Self)[1] # 0
    /\ SList[1] # SList[N]

\* The slot indices a traversal from cur comes to, the empty ones too.
RECURSIVE LinkedFrom(_, _, _)
LinkedFrom(ns, cur, fuel) ==
    IF cur = None THEN {}
    ELSE IF ~Live(ns, cur[1]) \/ fuel = 0 THEN {cur[1]}
    ELSE {cur[1]} \cup LinkedFrom(ns, ns[cur[1]][1].next, fuel - 1)

Linked == LinkedFrom(nodes, head, N)

\* C18: with every write of delete_element and delete_at_index taken as a
\* step, no state, intermediate ones included, has an empty slot or an index
\* of free linked from head; and the slot being removed is no longer linked
\* from head once the first write is done, which is before deallocate_node
\* clears it and returns it to free.
C18_NoFreedSlotIsEverLinked ==
    /\ \A i \in Linked : Live(nodes, i) /\ i \notin FreeSet
    /\ pc # Idle => pc.index \notin Linked
    /\ (pc # Idle /\ pc.at = "rewired") =>
          (Live(nodes, pc.index) /\ pc.index \notin FreeSet)

\* deallocate_node has pushed the index of an unlinked slot and has not yet
\* sorted free; elements remain in the list.
C18_Witness ==
    /\ pc # Idle
    /\ pc.at = "pushed"
    /\ head # None
    /\ \E k \in 1..(Len(free) - 1) : free[k] > free[k + 1]

\* A call of the StaticLinkedList is inside its traversal loop.
Walking == pc # Idle /\ pc.at = "walk"

\* C21: every operation of the StaticLinkedList terminates in every
\* reachable state.  A call that is inside its traversal loop has followed
\* at most length next links; its next turn can be taken; and a turn either
\* returns or follows exactly one more link of a list it leaves as it is.
\* So the call returns after at most length + 1 turns.
C21_EveryOperationTerminates ==
    /\ [](Walking => pc.steps <= Len(SList))
    /\ [](Walking => ENABLED WalkStep)
    /\ [][Walking =>
            \/ pc' = Idle
            \/ /\ pc'.steps = pc.steps + 1
               /\ UNCHANGED <<nodes, head, free>>]_vars

\* C21 over the behaviours in which a call that has begun keeps making
\* turns: a call that is inside its loop returns.
C21_EveryCallReturns == Walking ~> pc = Idle

\* The loop of find has followed N links of a full list whose list order is
\* not the order of its slots: it has come to the end of the chain.
C21_Witness ==
    /\ Walking
    /\ pc.op.name = "find"
    /\ pc.steps = N
    /\ pc.cur = None
    /\ free = <<>>
    /\ Chain(Self)[1] # 0

\* The step is the first of its call; the step is the one its call returns
\* with.  A call that makes no turn of a loop is one step, which is both.
Begins  == pc = Idle
Returns == pc' = Idle

\* The step leaves head, free, the set of occupied slots and every next link
\* as they were.
LinksKept ==
    /\ head' = head
    /\ free' = free
    /\ \A i \in Slots :
          IF nodes[i] = None
          THEN nodes'[i] = None
          ELSE nodes'[i] # None /\ nodes'[i][1].next = nodes[i][1].next

\* The slots whose data the step changes.
DataChanged ==
    {i \in Slots : nodes[i] # None /\ nodes'[i] # None
                   /\ nodes'[i][1].data # nodes[i][1].data}

\* The step takes exactly one index out of free.
TakesOneIndex ==
    /\ Len(free') = Len(free) - 1
    /\ \E j \in FreeSet : FreeSet' = FreeSet \ {j}

\* The step adds slot j, which held an element, and nothing else to free.
GivesBack(j) ==
    /\ nodes[j] # None
    /\ j \notin FreeSet
    /\ FreeSet' = FreeSet \cup {j}
    /\ Len(free') = Len(free) + 1

\* C22: on a StaticLinkedList, every step of update_element,
\* update_element_at_index, find and get leaves head, every next link, the
\* set of occupied slots and free as they were; find and get change no data,
\* an update changes the data of at most one slot, and only as it returns; an
\* insert that finds a free slot and an insert_at_index that returns Ok take
\* exactly one index out of free; a delete_element that returns true and a
\* delete_at_index that returns Ok add exactly one index to free, the slot
\* that held the removed element; no other step of these calls changes free.
C22_EffectsAreConfined ==
    [][kind = Static =>
         /\ op'.name \in {"find", "get"} => (LinksKept /\ nodes' = nodes)
         /\ op'.name \in {"update_element", "update_element_at_index"} =>
              /\ LinksKept
              /\ Cardinality(DataChanged) <= 1
              /\ ~Returns => nodes' = nodes
         /\ op'.name = "insert" =>
              IF Begins /\ ~printed' THEN TakesOneIndex ELSE free' = free
         /\ op'.name = "insert_at_index" =>
              IF Returns /\ ret' = Ok THEN TakesOneIndex ELSE free' = free
         /\ op'.name = "delete_element" =>
              IF Returns /\ ret' = True
              THEN GivesBack(Chain(Self)[FirstIndex(SList, op'.data)])
              ELSE free' = free
         /\ op'.name = "delete_at_index" =>
              IF Returns /\ ret' = Ok
              THEN GivesBack(Chain(Self)[op'.index + 1])
              ELSE free' = free]_vars

\* A delete_at_index has walked to the last element of a full list, which
\* sat in slot 0, and has returned the slot to free.
C22_Witness ==
    /\ pc = Idle
    /\ op.name = "delete_at_index"
    /\ op.index = N - 1
    /\ ret = Ok
    /\ free = <<0>>

\* C23: in every state of the array StaticLinkedList reachable from new(),
\* size <= N, every slot at a position < size is Some and every slot at a
\* position >= size is None; no call has indexed the array outside 0..N-1 or
\* taken 1 from a size of 0, and no get or find would.
C23_ArrayHoldsItsElementsInFront ==
    kind = Array =>
        /\ size \in 0..N
        /\ \A k \in Slots : (anodes[k] # None) <=> (k < size)
        /\ aret # Panic
        /\ \A i \in Indices : A_get(ASelf, i) # Some(0)
        /\ \A x \in Values : A_find(ASelf, x) # Panic

\* A delete_at_index has removed the last element of a full array.
C23_Witness ==
    /\ kind = Array
    /\ op.name = "delete_at_index"
    /\ op.index = N - 1
    /\ aret = Ok
    /\ size = N - 1
    /\ anodes[0] # anodes[N - 2]

\* C24: a StaticLinkedList and an array StaticLinkedList of the same
\* capacity that receive the same sequence of calls, inserts into the full
\* lists among them, hold the same elements after every call, answer every
\* get and every find alike, return the same result from delete_element,
\* delete_at_index, update_element and update_element_at_index, and return
\* Ok from insert_at_index in the same cases.
C24_BoundedListsAgree ==
    kind = Bounded =>
        /\ AList = [k \in 1..Len(SList) |-> Some(SList[k])]
        /\ \A i \in Indices : S_get(Self, i) = A_get(ASelf, i)
        /\ \A x \in Values : S_find(Self, x) = A_find(ASelf, x)
        /\ op.name \in {"delete_element", "delete_at_index",
                        "update_element", "update_element_at_index"} => ret = aret
        /\ op.name = "insert_at_index" => ((ret = Ok) <=> (aret = Ok))

\* Both lists are full and have refused an insert; the StaticLinkedList
\* holds its elements in slots that are not in list order.
C24_Witness ==
    /\ kind = Bounded
    /\ op.name = "insert"
    /\ printed
    /\ aret = ErrFull
    /\ Chain(Self)[1] # 0
    /\ SList[1] # SList[N]

====
